---- MODULE Spec2Model ----
(***************************************************************************)
(* Model of mandelbrot-ggez (src/src/main.rs).                             *)
(*   Spec          the viewport controller: struct State and its ggez      *)
(*                 EventHandler under event::run, draw_image as one call   *)
(*   SpecRender    render passes of draw_image in steps: one worker per    *)
(*                 band, one byte written per step, on small buffers       *)
(*   SpecDecrease  the Left-key handler alone, from any budget             *)
(*                                                                         *)
(* Numbers.  f64 values are modelled as exact rationals [n, d] in lowest   *)
(* terms (no rounding); u32 time_limit keeps its 32-bit width as two       *)
(* 16-bit limbs [hi, lo], because the value 2^31 that the program reaches  *)
(* is outside the checker's integer range.                                 *)
(***************************************************************************)
EXTENDS Integers, Sequences, FiniteSets, TLC

VARIABLES
    bounds,         \* State.bounds: <<width, height>>
    upper_left,     \* State.upper_left: Complex<f64>
    lower_right,    \* State.lower_right: Complex<f64>
    time_limit,     \* State.time_limit: u32
    texture,        \* State.texture: Image
    mouse_pressed,  \* State.mouse_pressed
    update_event,   \* State.update_event
    pc,             \* position of the thread that runs event::run / draw_image
    panicked,       \* the process died of a panic
    frame_events,   \* events dispatched since the last update (bounds the model)
    zoom_steps,     \* zoom commands since the last reset (bounds the model)
    trail,          \* history: the last view command and the view before it
    pixels,         \* draw_image's local buffer `pixels`
    bands,          \* draw_image's `bands`: per band, render's arguments and position
    passes,         \* history: buffers of the render passes completed so far
    writes,         \* history: per byte of `pixels`, the bands that wrote it
    args,           \* draw_image's parameters (passed by value)
    log             \* history: commands and render passes of the current frame

vars == <<bounds, upper_left, lower_right, time_limit, texture, mouse_pressed,
          update_event, pc, panicked, frame_events, zoom_steps, trail,
          pixels, bands, passes, writes, args, log>>

stateVars == <<bounds, upper_left, lower_right, time_limit, texture,
               mouse_pressed, update_event>>
passVars == <<pixels, bands, passes, writes, args>>

----------------------------------------------------------------------------
(* Bounds of the model *)

\* zoom commands (ZoomIn, ZoomOut) explored after a reset
MaxZoomSteps == 2
\* events dispatched between two calls of update
MaxFrameEvents == 2

----------------------------------------------------------------------------
(* u32 arithmetic, 32 bits wide, as two 16-bit limbs *)

Limb == 65536

U32(n) == [hi |-> n \div Limb, lo |-> n % Limb]

U32Zero == U32(0)

\* The value of a u32 below 2^31
U32Val(t) == t.hi * Limb + t.lo

\* t * 2 overflows u32
U32DoubleOverflows(t) == 2 * t.hi + ((2 * t.lo) \div Limb) >= Limb

\* t * 2 modulo 2^32 (wrapping multiplication)
U32DoubleWrapping(t) ==
    [hi |-> (2 * t.hi + ((2 * t.lo) \div Limb)) % Limb, lo |-> (2 * t.lo) % Limb]

\* t / k for a divisor k in 1..2 (u32 division truncates)
U32Div(t, k) ==
    [hi |-> t.hi \div k, lo |-> ((t.hi % k) * Limb + t.lo) \div k]

\* t < 1
U32LessThanOne(t) == t.hi = 0 /\ t.lo < 1

----------------------------------------------------------------------------
(* f64 arithmetic, as exact rationals in lowest terms *)

Abs(a) == IF a < 0 THEN -a ELSE a

RECURSIVE GCD(_, _)
GCD(a, b) == IF b = 0 THEN a ELSE GCD(b, a % b)

\* n / d for d > 0, reduced
Rat(n, d) == LET g == GCD(Abs(n), d) IN [n |-> n \div g, d |-> d \div g]

F(n) == [n |-> n, d |-> 1]

RAdd(a, b) ==
    LET g == GCD(a.d, b.d)
    IN  Rat(a.n * (b.d \div g) + b.n * (a.d \div g), (a.d \div g) * b.d)

RNeg(a) == [n |-> -a.n, d |-> a.d]

RSub(a, b) == RAdd(a, RNeg(b))

RMul(a, b) ==
    LET g1 == GCD(Abs(a.n), b.d)
        g2 == GCD(Abs(b.n), a.d)
    IN  IF a.n = 0 \/ b.n = 0 THEN F(0)
        ELSE [n |-> (a.n \div g1) * (b.n \div g2), d |-> (a.d \div g2) * (b.d \div g1)]

\* a / k for an integer k > 0
RDivInt(a, k) == RMul(a, Rat(1, k))

RLess(a, b) ==
    LET g == GCD(a.d, b.d) IN a.n * (b.d \div g) < b.n * (a.d \div g)

(* num::Complex<f64> *)
Complex(re, im) == [re |-> re, im |-> im]

CAdd(a, b) == Complex(RAdd(a.re, b.re), RAdd(a.im, b.im))

CSub(a, b) == Complex(RSub(a.re, b.re), RSub(a.im, b.im))

CMul(a, b) ==
    Complex(RSub(RMul(a.re, b.re), RMul(a.im, b.im)),
            RAdd(RMul(a.re, b.im), RMul(a.im, b.re)))

norm_sqr(z) == RAdd(RMul(z.re, z.re), RMul(z.im, z.im))

----------------------------------------------------------------------------
(* fn pixel_to_point *)

\* `v as usize` for an integer-valued float v: negative values saturate to 0
AsUsize(v) == IF v < 0 THEN 0 ELSE v

pixel_to_point(b, pixel, ul, lr) ==
    LET width  == RSub(lr.re, ul.re)
        height == RSub(ul.im, lr.im)
    IN  Complex(RAdd(ul.re, RDivInt(RMul(F(pixel[1]), width), b[1])),
                RSub(ul.im, RDivInt(RMul(F(pixel[2]), height), b[2])))

----------------------------------------------------------------------------
(* struct State, State::new and fn main *)

win_size == <<800, 800>>

InitUpperLeft == Complex(F(-3), F(2))

InitLowerRight == Complex(F(1), F(-2))

InitTimeLimit == U32(256)

\* The selection box of mouse_button_up_event reaches 100 px to each side
HalfExtent == 100

\* Contents of a buffer that draw_image computed from these arguments
Rendered(tl, b, ul, lr) ==
    [time_limit |-> tl, bounds |-> b, upper_left |-> ul, lower_right |-> lr]

\* Image::from_rgba8(ctx, bounds.0 as u16, bounds.0 as u16, &pixels)
from_rgba8(b, rgba) == [width |-> b[1], height |-> b[1], rgba |-> rgba]

\* draw_image as one call: the image of the rendered buffer
draw_image(tl, b, ul, lr) == from_rgba8(b, Rendered(tl, b, ul, lr))

NoTrail == [cmd |-> "None", click |-> <<0, 0>>,
            upper_left |-> InitUpperLeft, lower_right |-> InitLowerRight]

\* log.commanded: a viewport command was handled since the last render pass;
\* of the update call of the current frame: log.reset, the reset key was down;
\* log.rendered, it ran a render pass; log.caused, a viewport command preceded it
NoLog == [commanded |-> FALSE, reset |-> FALSE, rendered |-> FALSE, caused |-> FALSE]

Idle == /\ pixels = <<>>
        /\ bands = <<>>
        /\ passes = <<>>
        /\ writes = <<>>
        /\ args = <<>>
        /\ log = NoLog

Init ==
    /\ bounds = win_size
    /\ upper_left = InitUpperLeft
    /\ lower_right = InitLowerRight
    /\ time_limit = InitTimeLimit
    /\ texture = draw_image(InitTimeLimit, win_size, InitUpperLeft, InitLowerRight)
    /\ mouse_pressed = FALSE
    /\ update_event = FALSE
    /\ pc = "events"
    /\ panicked = FALSE
    /\ frame_events = 0
    /\ zoom_steps = 0
    /\ trail = NoTrail
    /\ Idle

----------------------------------------------------------------------------
(* impl event::EventHandler for State *)

\* Mutant: events are also delivered while a render pass is running
Dispatch_DuringPass ==
    /\ pc \in {"events", "bands"}
    /\ ~panicked
    /\ frame_events < MaxFrameEvents
    /\ frame_events' = frame_events + 1
    /\ pc' = pc

\* An event handler runs while event::run polls events, and not after a panic
Dispatch ==
    /\ pc = "events"
    /\ ~panicked
    /\ frame_events < MaxFrameEvents
    /\ frame_events' = frame_events + 1
    /\ pc' = pc

\* The view that update sets while the Space key is down
ResetUpperLeft == Complex(F(-3), F(2))

\* Mutant: the imaginary part with the wrong sign
ResetLowerRight_SignSlip == Complex(F(1), F(2))

ResetLowerRight == Complex(F(1), F(-2))

\* The history of a frame whose update call finds the reset key `space`
\* and the flag `ev`
LogUpdate(space, ev) ==
    [commanded |-> IF ev THEN FALSE ELSE log.commanded,
     reset     |-> space,
     rendered  |-> ev,
     caused    |-> log.commanded \/ space]

\* Mutant: the reset also restores the initial budget
update_ResetsBudget(space) ==
    LET ul == IF space THEN ResetUpperLeft ELSE upper_left
        lr == IF space THEN ResetLowerRight ELSE lower_right
        tl == IF space THEN InitTimeLimit ELSE time_limit
        ev == space \/ update_event
    IN  /\ pc = "events"
        /\ ~panicked
        /\ upper_left' = ul
        /\ lower_right' = lr
        /\ time_limit' = tl
        /\ texture' = IF ev THEN draw_image(tl, bounds, ul, lr) ELSE texture
        /\ update_event' = FALSE
        /\ pc' = "draw"
        /\ frame_events' = 0
        /\ zoom_steps' = IF space THEN 0 ELSE zoom_steps
        /\ trail' = IF space
                    THEN [cmd |-> "Reset", click |-> <<0, 0>>,
                          upper_left |-> upper_left, lower_right |-> lower_right]
                    ELSE trail
        /\ log' = LogUpdate(space, ev)
        /\ UNCHANGED <<bounds, mouse_pressed, panicked>>
        /\ UNCHANGED passVars

\* fn update: `space` is is_key_pressed(ctx, KeyCode::Space)
update(space) ==
    LET ul == IF space THEN ResetUpperLeft ELSE upper_left
        lr == IF space THEN ResetLowerRight ELSE lower_right
        ev == space \/ update_event
    IN  /\ pc = "events"
        /\ ~panicked
        /\ upper_left' = ul
        /\ lower_right' = lr
        /\ texture' = IF ev THEN draw_image(time_limit, bounds, ul, lr) ELSE texture
        /\ update_event' = FALSE
        /\ pc' = "draw"
        /\ frame_events' = 0
        /\ zoom_steps' = IF space THEN 0 ELSE zoom_steps
        /\ trail' = IF space
                    THEN [cmd |-> "Reset", click |-> <<0, 0>>,
                          upper_left |-> upper_left, lower_right |-> lower_right]
                    ELSE trail
        /\ log' = LogUpdate(space, ev)
        /\ UNCHANGED <<bounds, time_limit, mouse_pressed, panicked>>
        /\ UNCHANGED passVars

\* fn draw: reads texture, mouse_pressed and time_limit, changes nothing
draw ==
    /\ pc = "draw"
    /\ ~panicked
    /\ pc' = "events"
    /\ log' = [log EXCEPT !.reset = FALSE, !.rendered = FALSE, !.caused = FALSE]
    /\ UNCHANGED stateVars
    /\ UNCHANGED <<panicked, frame_events, zoom_steps, trail>>
    /\ UNCHANGED passVars

\* Mutant: the halving without its floor of 1
DecreasedBudget_NoFloor(t) == U32Div(t, 2)

\* KeyCode::Left arm: time_limit /= if time_limit / 2 < 1 { 1 } else { 2 }
DecreasedBudget(t) ==
    U32Div(t, IF U32LessThanOne(U32Div(t, 2)) THEN 1 ELSE 2)

\* KeyCode::Right arm: time_limit *= 2, when the multiplication wraps
IncreasedBudget(t) == U32DoubleWrapping(t)

\* KeyCode::Right.  An overflowing `*= 2` panics in a build with overflow
\* checks (debug profile) and wraps in a build without (release profile).
IncreaseBudget ==
    \/ /\ time_limit' = IncreasedBudget(time_limit)
       /\ update_event' = TRUE
       /\ panicked' = panicked
    \/ /\ U32DoubleOverflows(time_limit)
       /\ panicked' = TRUE
       /\ UNCHANGED <<time_limit, update_event>>

\* Mutant: the Left arm without `self.update_event = true`
DecreaseBudget_NoFlag ==
    /\ time_limit' = DecreasedBudget(time_limit)
    /\ update_event' = update_event
    /\ panicked' = panicked

\* KeyCode::Left
DecreaseBudget ==
    /\ time_limit' = DecreasedBudget(time_limit)
    /\ update_event' = TRUE
    /\ panicked' = panicked

\* fn key_up_event
key_up_event(keycode) ==
    /\ Dispatch
    /\ CASE keycode = "Right" -> IncreaseBudget
         [] keycode = "Left" -> DecreaseBudget
         [] OTHER -> UNCHANGED <<time_limit, update_event, panicked>>
    /\ log' = IF keycode \in {"Right", "Left"} /\ ~panicked'
              THEN [log EXCEPT !.commanded = TRUE] ELSE log
    /\ UNCHANGED <<bounds, upper_left, lower_right, texture, mouse_pressed>>
    /\ UNCHANGED <<zoom_steps, trail>>
    /\ UNCHANGED passVars

\* fn mouse_button_down_event
mouse_button_down_event(button) ==
    /\ Dispatch
    /\ mouse_pressed' = IF button = "Left" THEN TRUE ELSE mouse_pressed
    /\ UNCHANGED <<bounds, upper_left, lower_right, time_limit, texture, update_event>>
    /\ UNCHANGED <<panicked, zoom_steps, trail, log>>
    /\ UNCHANGED passVars

\* Mutant: the two corners exchanged
ZoomInView_CornersSwapped(b, ul, lr, x, y) ==
    [upper_left  |-> pixel_to_point(b, <<AsUsize(x + HalfExtent), AsUsize(y + HalfExtent)>>, ul, lr),
     lower_right |-> pixel_to_point(b, <<AsUsize(x - HalfExtent), AsUsize(y - HalfExtent)>>, ul, lr)]

\* MouseButton::Left arm: the new corners, both from the view before the command
ZoomInView(b, ul, lr, x, y) ==
    [upper_left  |-> pixel_to_point(b, <<AsUsize(x - HalfExtent), AsUsize(y - HalfExtent)>>, ul, lr),
     lower_right |-> pixel_to_point(b, <<AsUsize(x + HalfExtent), AsUsize(y + HalfExtent)>>, ul, lr)]

\* Mutant: lower_right += diag instead of -= diag
ZoomOutView_SignSlip(ul, lr) ==
    LET diag == CSub(ul, lr)
    IN  [upper_left |-> CAdd(ul, diag), lower_right |-> CAdd(lr, diag)]

\* Mutant: lower_right is left as it was
ZoomOutView_OneSided(ul, lr) ==
    LET diag == CSub(ul, lr)
    IN  [upper_left |-> CAdd(ul, diag), lower_right |-> lr]

\* Mutant: each corner moves by half the diagonal
ZoomOutView_HalfDiag(ul, lr) ==
    LET diag == CSub(ul, lr)
        half == Complex(RDivInt(diag.re, 2), RDivInt(diag.im, 2))
    IN  [upper_left |-> CAdd(ul, half), lower_right |-> CSub(lr, half)]

\* MouseButton::Right arm: diag = upper_left - lower_right
ZoomOutView(ul, lr) ==
    LET diag == CSub(ul, lr)
    IN  [upper_left |-> CAdd(ul, diag), lower_right |-> CSub(lr, diag)]

\* fn mouse_button_up_event
mouse_button_up_event(button, x, y) ==
    /\ Dispatch
    /\ button \in {"Left", "Right"} => zoom_steps < MaxZoomSteps
    /\ mouse_pressed' = FALSE
    /\ update_event' = TRUE
    /\ \E new \in {CASE button = "Left" -> ZoomInView(bounds, upper_left, lower_right, x, y)
                     [] button = "Right" -> ZoomOutView(upper_left, lower_right)
                     [] OTHER -> [upper_left |-> upper_left, lower_right |-> lower_right]} :
           /\ upper_left' = new.upper_left
           /\ lower_right' = new.lower_right
    /\ zoom_steps' = IF button \in {"Left", "Right"} THEN zoom_steps + 1 ELSE zoom_steps
    /\ trail' = IF button \in {"Left", "Right"}
                THEN [cmd |-> IF button = "Left" THEN "ZoomIn" ELSE "ZoomOut",
                      click |-> IF button = "Left" THEN <<x, y>> ELSE <<0, 0>>,
                      upper_left |-> upper_left, lower_right |-> lower_right]
                ELSE trail
    /\ log' = IF button \in {"Left", "Right"}
              THEN [log EXCEPT !.commanded = TRUE] ELSE log
    /\ UNCHANGED <<bounds, time_limit, texture, panicked>>
    /\ UNCHANGED passVars

----------------------------------------------------------------------------
(* Inputs of the event handlers *)

KeyCodes == {"Right", "Left", "Up"}

MouseButtons == {"Left", "Right", "Middle"}

\* Release positions (x, y) inside the window: near the left and top edges,
\* in the middle, and near the right edge
Clicks == {<<50, 50>>, <<400, 400>>, <<750, 400>>}

\* event::run: poll and dispatch events, then update, then draw
Next ==
    \/ \E keycode \in KeyCodes : key_up_event(keycode)
    \/ \E button \in MouseButtons : mouse_button_down_event(button)
    \/ \E button \in MouseButtons, c \in Clicks :
           mouse_button_up_event(button, c[1], c[2])
    \/ \E space \in BOOLEAN : update(space)
    \/ draw

Spec == Init /\ [][Next]_vars

----------------------------------------------------------------------------
(* fn escape_time; Option<u32> is <<>> (None) or <<i>> (Some(i)) *)

RECURSIVE escape_loop(_, _, _, _)
escape_loop(z, i, c, limit) ==
    IF i >= limit THEN <<>>
    ELSE LET z1 == CAdd(CMul(z, z), c)
         IN  IF RLess(F(4), norm_sqr(z1)) THEN <<i>>
             ELSE escape_loop(z1, i + 1, c, limit)

\* Mutant: the steps counted down from the limit
escape_time_CountDown(c, limit) ==
    LET e == escape_loop(Complex(F(0), F(0)), 0, c, limit)
    IN  IF e = <<>> THEN e ELSE <<limit - 1 - e[1]>>

escape_time(c, limit) == escape_loop(Complex(F(0), F(0)), 0, c, limit)

----------------------------------------------------------------------------
(* fn render: the colour of one pixel *)

\* (component * 255.) as u8, for the three components of
\* Srgb::from(Hsv::new(360 * val / limit, 1, if val == 0 { 0 } else { 1 }))
HsvBytes(val, limit) ==
    IF val = 0 THEN <<0, 0, 0>>
    ELSE LET h      == (6 * val) % (6 * limit)    \* hue / 60 degrees, in units of 1 / limit
             sector == h \div limit
             x      == (255 * (limit - Abs((h % (2 * limit)) - limit))) \div limit
         IN  CASE sector = 0 -> <<255, x, 0>>
               [] sector = 1 -> <<x, 255, 0>>
               [] sector = 2 -> <<0, 255, x>>
               [] sector = 3 -> <<0, x, 255>>
               [] sector = 4 -> <<x, 0, 255>>
               [] OTHER      -> <<255, 0, x>>

\* Mutant: val is one less
PixelBytes_OffByOne(limit, point) ==
    LET e   == escape_time(point, limit)
        val == IF e = <<>> THEN 0 ELSE limit - e[1] - 1
    IN  HsvBytes(val, limit) \o <<255>>

\* The four bytes render writes for the pixel whose point is `point`
PixelBytes(limit, point) ==
    LET e   == escape_time(point, limit)
        val == IF e = <<>> THEN 0 ELSE limit - e[1]
    IN  HsvBytes(val, limit) \o <<255>>

----------------------------------------------------------------------------
(* fn draw_image, one render pass in steps *)

\* vec![0; 4 * bounds.0 * bounds.1]
BufferLen(b) == 4 * b[1] * b[2]

Length(buf) == Cardinality(DOMAIN buf)

\* Mutant: chunks of 4 * bounds.1 bytes
ChunkLen_ByHeight(b) == 4 * b[2]

\* pixels.chunks_mut(4 * bounds.0): the chunk size
ChunkLen(b) == 4 * b[1]

\* Number of chunks: the last one may be shorter
BandCount(b) == (BufferLen(b) + ChunkLen(b) - 1) \div ChunkLen(b)

BandIds(b) == 0 .. BandCount(b) - 1

\* Mutant: each band after the first starts one pixel early
BandStart_Overlapping(b, i) == IF i = 0 THEN 0 ELSE ChunkLen(b) * i - 4

\* First buffer index of band i
BandStart(b, i) == ChunkLen(b) * i

\* Length of the slice of band i
BandLen(b, i) ==
    IF BandStart(b, i) + ChunkLen(b) <= BufferLen(b)
    THEN ChunkLen(b) ELSE BufferLen(b) - BandStart(b, i)

\* Buffer indices of the slice of band i
BandIndices(b, i) == BandStart(b, i) .. BandStart(b, i) + BandLen(b, i) - 1

\* The closure's arguments to render for band i: band_bounds and corners
BandArgs(b, i, ul, lr) ==
    [band_bounds |-> <<b[1], 1>>,
     upper_left  |-> pixel_to_point(b, <<0, i>>, ul, lr),
     lower_right |-> pixel_to_point(b, <<b[1], i + 1>>, ul, lr)]

\* render: the index within its slice of byte k of pixel (column, row)
RenderIndex(bb, row, column, k) == 4 * (row * bb[1] + column) + k

\* render: the value of byte k of pixel (column, row)
RenderByte(limit, bb, row, column, k, ul, lr) ==
    PixelBytes(limit, pixel_to_point(bb, <<column, row>>, ul, lr))[k + 1]

\* draw_image is called with copies of the State's fields: the buffer is
\* allocated and split into bands
StartPass ==
    /\ pc = "call"
    /\ ~panicked
    /\ args' = [time_limit |-> time_limit, bounds |-> bounds,
                upper_left |-> upper_left, lower_right |-> lower_right]
    /\ pixels' = [j \in 0 .. BufferLen(bounds) - 1 |-> 0]
    /\ writes' = [j \in 0 .. BufferLen(bounds) - 1 |-> <<>>]
    /\ bands' = [i \in BandIds(bounds) |->
                     [args |-> BandArgs(bounds, i, upper_left, lower_right),
                      column |-> 0, byte |-> 0, col |-> <<>>]]
    /\ pc' = "bands"
    /\ UNCHANGED stateVars
    /\ UNCHANGED <<panicked, frame_events, zoom_steps, trail, passes, log>>

\* The worker of band i writes the next byte of its row (render, row 0 of
\* a band of height 1): `col` is computed before the first byte of a pixel;
\* an index outside the slice panics
BandStep(i) ==
    LET a      == bands[i].args
        column == bands[i].column
        k      == bands[i].byte
        j      == RenderIndex(a.band_bounds, 0, column, k)
        col    == IF k = 0
                  THEN PixelBytes(U32Val(args.time_limit),
                                  pixel_to_point(a.band_bounds, <<column, 0>>,
                                                 a.upper_left, a.lower_right))
                  ELSE bands[i].col
    IN  /\ pc = "bands"
        /\ ~panicked
        /\ column < a.band_bounds[1]
        /\ IF j < BandLen(args.bounds, i)
           THEN /\ pixels' = [pixels EXCEPT ![BandStart(args.bounds, i) + j] = col[k + 1]]
                /\ writes' = [writes EXCEPT ![BandStart(args.bounds, i) + j] = Append(@, i)]
                /\ bands' = [bands EXCEPT ![i].column = IF k < 3 THEN column ELSE column + 1,
                                          ![i].byte = IF k < 3 THEN k + 1 ELSE 0,
                                          ![i].col = IF k < 3 THEN col ELSE <<>>]
                /\ panicked' = panicked
           ELSE /\ panicked' = TRUE
                /\ UNCHANGED <<pixels, writes, bands>>
        /\ UNCHANGED stateVars
        /\ UNCHANGED <<pc, frame_events, zoom_steps, trail, passes, args, log>>

\* Mutant: for_each returns as soon as one band is rendered
BandsJoined_Any == \E i \in DOMAIN bands : bands[i].column = bands[i].args.band_bounds[1]

\* bands.into_par_iter().for_each(..) returns when render has returned for
\* every band
BandsJoined == \A i \in DOMAIN bands : bands[i].column = bands[i].args.band_bounds[1]

\* for_each has returned; the buffer is read and the image is created
FinishPass ==
    /\ pc = "bands"
    /\ ~panicked
    /\ BandsJoined
    /\ texture' = from_rgba8(args.bounds, pixels)
    /\ passes' = Append(passes, pixels)
    /\ pc' = "done"
    /\ UNCHANGED <<bounds, upper_left, lower_right, time_limit, mouse_pressed, update_event>>
    /\ UNCHANGED <<panicked, frame_events, zoom_steps, trail, pixels, bands, writes, args, log>>

\* render on band i alone, from its step n on (4 steps per column)
RECURSIVE RunBand(_, _, _, _, _, _, _)
RunBand(buf, n, limit, b, i, ul, lr) ==
    LET a == BandArgs(b, i, ul, lr)
        j == RenderIndex(a.band_bounds, 0, n \div 4, n % 4)
    IN  IF n >= 4 * a.band_bounds[1] THEN buf
        ELSE RunBand([buf EXCEPT ![BandStart(b, i) + j] =
                          RenderByte(limit, a.band_bounds, 0, n \div 4, n % 4,
                                     a.upper_left, a.lower_right)],
                     n + 1, limit, b, i, ul, lr)

\* The bands of `order` rendered one after the other
RECURSIVE RunBands(_, _, _, _, _, _)
RunBands(buf, order, limit, b, ul, lr) ==
    IF order = <<>> THEN buf
    ELSE RunBands(RunBand(buf, 0, limit, b, Head(order), ul, lr),
                  Tail(order), limit, b, ul, lr)

\* draw_image with its bands run sequentially in the given order
SequentialRender(order, limit, b, ul, lr) ==
    RunBands([j \in 0 .. BufferLen(b) - 1 |-> 0], order, limit, b, ul, lr)

\* The orders in which the bands can run one after the other
BandOrders(b) ==
    {o \in [1 .. BandCount(b) -> BandIds(b)] :
        \A m, n \in 1 .. BandCount(b) : m # n => o[m] # o[n]}

\* render passes of the same arguments in one run
MaxPasses == 2

\* draw_image is called again with the same arguments
CallAgain ==
    /\ pc = "done"
    /\ Len(passes) < MaxPasses
    /\ pc' = "call"
    /\ UNCHANGED stateVars
    /\ UNCHANGED <<panicked, frame_events, zoom_steps, trail, log>>
    /\ UNCHANGED passVars

\* width and height of the buffers rendered in steps
MaxDim == 2

\* iteration budgets of the passes rendered in steps
MaxLimit == 3

\* View rectangles of the passes rendered in steps
RenderViews ==
    {<<Complex(F(-3), F(3)), Complex(F(3), F(-3))>>,
     <<Complex(F(-2), F(1)), Complex(F(1), F(-2))>>,
     <<Complex(F(-1), F(2)), Complex(F(5), F(-4))>>}

InitRender ==
    /\ bounds \in (1 .. MaxDim) \X (1 .. MaxDim)
    /\ \E v \in RenderViews : upper_left = v[1] /\ lower_right = v[2]
    /\ time_limit \in {U32(n) : n \in 1 .. MaxLimit}
    /\ texture = [width |-> 0, height |-> 0, rgba |-> <<>>]
    /\ mouse_pressed = FALSE
    /\ update_event = TRUE
    /\ pc = "call"
    /\ panicked = FALSE
    /\ frame_events = 0
    /\ zoom_steps = 0
    /\ trail = NoTrail
    /\ Idle

NextRender ==
    \/ StartPass
    \/ \E i \in DOMAIN bands : BandStep(i)
    \/ FinishPass
    \/ CallAgain

SpecRender == InitRender /\ [][NextRender]_vars

-----------------------------------------------------------------------------
(* One frame of event::run with the render pass of update taken band step   *)
(* by band step: the handlers of Spec and the pass of SpecRender together,  *)
(* on images small enough to follow every interleaving, up to the draw that *)
(* follows the first render pass.                                           *)

FrameBounds == {<<1, 2>>, <<2, 1>>}

\* The release position of this specification's mouse events
FrameClick == <<50, 50>>

InitFrame ==
    /\ bounds \in FrameBounds
    /\ \E v \in RenderViews : upper_left = v[1] /\ lower_right = v[2]
    /\ time_limit \in {U32(n) : n \in 1 .. MaxLimit}
    /\ texture = [width |-> 0, height |-> 0, rgba |-> <<>>]
    /\ mouse_pressed = FALSE
    /\ update_event = FALSE
    /\ pc = "events"
    /\ panicked = FALSE
    /\ frame_events = 0
    /\ zoom_steps = 0
    /\ trail = NoTrail
    /\ Idle

\* fn update up to its call of draw_image (lines 153-158)
update_begin(space) ==
    LET ev == space \/ update_event
    IN  /\ pc = "events"
        /\ ~panicked
        /\ passes = <<>>
        /\ upper_left' = IF space THEN ResetUpperLeft ELSE upper_left
        /\ lower_right' = IF space THEN ResetLowerRight ELSE lower_right
        /\ update_event' = ev
        /\ pc' = IF ev THEN "call" ELSE "draw"
        /\ frame_events' = 0
        /\ zoom_steps' = IF space THEN 0 ELSE zoom_steps
        /\ trail' = IF space
                    THEN [cmd |-> "Reset", click |-> <<0, 0>>,
                          upper_left |-> upper_left, lower_right |-> lower_right]
                    ELSE trail
        /\ log' = LogUpdate(space, ev)
        /\ UNCHANGED <<bounds, time_limit, texture, mouse_pressed, panicked>>
        /\ UNCHANGED passVars

\* fn update after draw_image returned (line 166); the image was assigned to
\* self.texture by FinishPass
update_end ==
    /\ pc = "done"
    /\ ~panicked
    /\ update_event' = FALSE
    /\ pc' = "draw"
    /\ UNCHANGED <<bounds, upper_left, lower_right, time_limit, texture, mouse_pressed>>
    /\ UNCHANGED <<panicked, frame_events, zoom_steps, trail, log>>
    /\ UNCHANGED passVars

\* The events of a frame before the first render pass.  The budget is doubled
\* up to MaxLimit and a zoom-in starts from a view at most 6 wide, which keeps
\* the squares of the points of the pass below 2^31.
FrameEvent ==
    /\ passes = <<>>
    /\ \/ \E keycode \in KeyCodes :
              /\ keycode = "Right" => 2 * U32Val(time_limit) <= MaxLimit
              /\ key_up_event(keycode)
       \/ \E button \in MouseButtons : mouse_button_down_event(button)
       \/ \E button \in MouseButtons :
              /\ button = "Left" =>
                     ~RLess(F(6), RSub(lower_right.re, upper_left.re))
              /\ mouse_button_up_event(button, FrameClick[1], FrameClick[2])

NextFrame ==
    \/ FrameEvent
    \/ \E space \in BOOLEAN : update_begin(space)
    \/ StartPass
    \/ \E i \in DOMAIN bands : BandStep(i)
    \/ FinishPass
    \/ update_end
    \/ draw

SpecFrame == InitFrame /\ [][NextFrame]_vars

-----------------------------------------------------------------------------
(* pixel_to_point in floating point.  Each f64 operation returns the exact  *)
(* result rounded to the nearest representable number, ties to even; the    *)
(* model keeps that rule with a significand of Precision bits in place of   *)
(* the 53 of f64, and an unbounded exponent.                                *)

Precision == 4

RECURSIVE Pow2(_)
Pow2(k) == IF k = 0 THEN 1 ELSE 2 * Pow2(k - 1)

\* <<a', b'>> with a'/b' = (a/b) * 2^e and 2^(Precision-1) <= a'/b' < 2^Precision
RECURSIVE FlScale(_, _)
FlScale(a, b) ==
    IF a >= b * Pow2(Precision) THEN FlScale(a, 2 * b)
    ELSE IF a < b * Pow2(Precision - 1) THEN FlScale(2 * a, b)
    ELSE <<a, b>>

\* The floating-point number nearest to the rational x, ties to even
Fl(x) ==
    IF x.n = 0 THEN x
    ELSE LET a == Abs(x.n)
             s == FlScale(a, x.d)
             m == s[1] \div s[2]
             r == s[1] % s[2]
             up == 2 * r > s[2] \/ (2 * r = s[2] /\ m % 2 = 1)
             sign == IF x.n < 0 THEN -1 ELSE 1
         IN  Rat(sign * (IF up THEN m + 1 ELSE m) * (s[2] \div x.d), s[1] \div a)

\* a / b for b # 0
RDiv(a, b) == IF b.n < 0 THEN Rat((-a.n) * b.d, a.d * (-b.n))
                         ELSE Rat(a.n * b.d, a.d * b.n)

\* fn pixel_to_point, operation by operation in floating point
pixel_to_point_fl(b, pixel, ul, lr) ==
    LET width  == Fl(RSub(lr.re, ul.re))
        height == Fl(RSub(ul.im, lr.im))
    IN  Complex(Fl(RAdd(ul.re, Fl(RDiv(Fl(RMul(Fl(F(pixel[1])), width)), Fl(F(b[1])))))),
                Fl(RSub(ul.im, Fl(RDiv(Fl(RMul(Fl(F(pixel[2])), height)), Fl(F(b[2])))))))

\* z * z + c of num's Complex<f64>: re = a*a - b*b + c.re, im = a*b + b*a + c.im
StepFl(z, c) ==
    Complex(Fl(RAdd(Fl(RSub(Fl(RMul(z.re, z.re)), Fl(RMul(z.im, z.im)))), c.re)),
            Fl(RAdd(Fl(RAdd(Fl(RMul(z.re, z.im)), Fl(RMul(z.im, z.re)))), c.im)))

\* Complex::norm_sqr: re * re + im * im
norm_sqr_fl(z) == Fl(RAdd(Fl(RMul(z.re, z.re)), Fl(RMul(z.im, z.im))))

RECURSIVE escape_loop_fl(_, _, _, _)
escape_loop_fl(z, i, c, limit) ==
    IF i >= limit THEN <<>>
    ELSE LET z1 == StepFl(z, c)
         IN  IF RLess(F(4), norm_sqr_fl(z1)) THEN <<i>>
             ELSE escape_loop_fl(z1, i + 1, c, limit)

\* fn escape_time in floating point
escape_time_fl(c, limit) == escape_loop_fl(Complex(F(0), F(0)), 0, c, limit)

\* The four bytes render writes for the pixel whose point is `point`
PixelBytesFl(limit, point) ==
    LET e   == escape_time_fl(point, limit)
        val == IF e = <<>> THEN 0 ELSE limit - e[1]
    IN  HsvBytes(val, limit) \o <<255>>

\* The band corners that the closure of draw_image computes for band i
BandArgsFl(b, i, ul, lr) ==
    [band_bounds |-> <<b[1], 1>>,
     upper_left  |-> pixel_to_point_fl(b, <<0, i>>, ul, lr),
     lower_right |-> pixel_to_point_fl(b, <<b[1], i + 1>>, ul, lr)]

\* Real and imaginary parts of the corners of the views mapped
CornerCoords == {F(-3), F(-1), F(0), Rat(1, 8), Rat(3, 4), Rat(9, 4)}

InitCorner ==
    /\ bounds \in (1 .. MaxDim) \X (1 .. MaxDim)
    /\ \E l, r, t, u \in CornerCoords :
           /\ RLess(l, r)
           /\ RLess(u, t)
           /\ upper_left = Complex(l, t)
           /\ lower_right = Complex(r, u)
    /\ time_limit \in {U32(n) : n \in 1 .. MaxLimit}
    /\ texture = [width |-> 0, height |-> 0, rgba |-> <<>>]
    /\ mouse_pressed = FALSE
    /\ update_event = TRUE
    /\ pc = "call"
    /\ panicked = FALSE
    /\ frame_events = 0
    /\ zoom_steps = 0
    /\ trail = NoTrail
    /\ Idle

\* draw_image up to the corners of its bands (lines 96-107)
MapCorners ==
    /\ pc = "call"
    /\ pixels' = [j \in 0 .. BufferLen(bounds) - 1 |-> 0]
    /\ args' = [time_limit |-> time_limit, bounds |-> bounds,
                upper_left |-> upper_left, lower_right |-> lower_right]
    /\ bands' = [i \in BandIds(bounds) |->
                    [args |-> BandArgsFl(bounds, i, upper_left, lower_right),
                     column |-> 0, byte |-> 0, col |-> <<>>]]
    /\ pc' = "mapped"
    /\ UNCHANGED stateVars
    /\ UNCHANGED <<panicked, frame_events, zoom_steps, trail, passes, writes, log>>

\* The byte that render writes at index j of band i's slice
RenderByteFl(i, j) ==
    PixelBytesFl(U32Val(args.time_limit),
                 pixel_to_point_fl(bands[i].args.band_bounds, <<j \div 4, 0>>,
                                   bands[i].args.upper_left,
                                   bands[i].args.lower_right))[(j % 4) + 1]

\* fn render for band i, start to end
RenderBandFl(i) ==
    /\ pc = "mapped"
    /\ bands[i].column = 0
    /\ pixels' = [j \in DOMAIN pixels |->
                     IF j \in BandIndices(args.bounds, i)
                     THEN RenderByteFl(i, j - BandStart(args.bounds, i))
                     ELSE pixels[j]]
    /\ bands' = [bands EXCEPT ![i].column = bands[i].args.band_bounds[1]]
    /\ UNCHANGED stateVars
    /\ UNCHANGED <<pc, panicked, frame_events, zoom_steps, trail, passes, writes, args, log>>

NextCorner ==
    \/ MapCorners
    \/ \E i \in DOMAIN bands : RenderBandFl(i)

SpecCorner == InitCorner /\ [][NextCorner]_vars

----------------------------------------------------------------------------
(* Budget commands alone, from any budget *)

\* budgets 1..MaxBudget start the runs of SpecDecrease
MaxBudget == 130

\* u32 values that cross the limb boundary, and the largest below 2^31
LargeBudgets == {[hi |-> 1, lo |-> 0], [hi |-> 1, lo |-> 1], [hi |-> 32767, lo |-> 65535]}

InitDecrease ==
    /\ time_limit \in {U32(n) : n \in 1..MaxBudget} \cup LargeBudgets
    /\ bounds = win_size
    /\ upper_left = InitUpperLeft
    /\ lower_right = InitLowerRight
    /\ texture = draw_image(time_limit, win_size, InitUpperLeft, InitLowerRight)
    /\ mouse_pressed = FALSE
    /\ update_event = FALSE
    /\ pc = "events"
    /\ panicked = FALSE
    /\ frame_events = 0
    /\ zoom_steps = 0
    /\ trail = NoTrail
    /\ Idle

\* key_up_event(KeyCode::Left), again and again
DecreaseOnly ==
    /\ pc = "events"
    /\ ~panicked
    /\ DecreaseBudget
    /\ UNCHANGED <<bounds, upper_left, lower_right, texture, mouse_pressed>>
    /\ UNCHANGED <<pc, frame_events, zoom_steps, trail, log>>
    /\ UNCHANGED passVars

SpecDecrease == InitDecrease /\ [][DecreaseOnly]_vars /\ WF_vars(DecreaseOnly)

----------------------------------------------------------------------------
(* Properties *)

Width(ul, lr) == RSub(lr.re, ul.re)

Height(ul, lr) == RSub(ul.im, lr.im)

\* C1: in every reachable state the iteration budget time_limit is a
\* positive integer (>= 1).
C1_BudgetPositive == time_limit # U32Zero

\* C2: for every budget b >= 1, DecreaseBudget sets the budget to
\* max(1, floor(b / 2)); repeated alone it reaches 1 after finitely many
\* steps and stays at 1, never 0.
C2_DecreaseHalvesToOne ==
    /\ [][U32Val(time_limit') =
            IF U32Val(time_limit) \div 2 < 1 THEN 1 ELSE U32Val(time_limit) \div 2]_vars
    /\ [](time_limit # U32Zero)
    /\ <>[](time_limit = U32(1))

C2_Witness ==
    /\ time_limit = U32(1)
    /\ update_event

\* C3 (as stated): after ZoomOut the width and the height of the view are
\* exactly 2 times those before the command.
C3_ZoomOutDoubles ==
    trail.cmd = "ZoomOut" =>
        /\ Width(upper_left, lower_right)
             = RMul(F(2), Width(trail.upper_left, trail.lower_right))
        /\ Height(upper_left, lower_right)
             = RMul(F(2), Height(trail.upper_left, trail.lower_right))

\* C3 (amended): after ZoomOut the width and the height of the view are
\* exactly 3 times those before the command.
C3_ZoomOutTriples ==
    trail.cmd = "ZoomOut" =>
        /\ Width(upper_left, lower_right)
             = RMul(F(3), Width(trail.upper_left, trail.lower_right))
        /\ Height(upper_left, lower_right)
             = RMul(F(3), Height(trail.upper_left, trail.lower_right))

C3_Witness ==
    /\ trail.cmd = "ZoomOut"
    /\ Width(trail.upper_left, trail.lower_right) # F(4)

Span(v) == AsUsize(v + HalfExtent) - AsUsize(v - HalfExtent)

\* C5 (as stated): ZoomIn followed immediately by ZoomOut restores the
\* width and the height the view had before the ZoomIn.
C5_RoundTripRestores ==
    [][(trail.cmd = "ZoomIn" /\ trail'.cmd = "ZoomOut") =>
          /\ Width(upper_left', lower_right') = Width(trail.upper_left, trail.lower_right)
          /\ Height(upper_left', lower_right') = Height(trail.upper_left, trail.lower_right)]_vars

\* C5 (amended): ZoomIn at (x, y) followed immediately by ZoomOut yields
\* 3 * span(x) / 800 of the prior width and 3 * span(y) / 800 of the prior
\* height, where span(v) = (v + 100) - max(0, v - 100): 3/4 of the prior
\* extent for a release at least 100 px from the left and top edges.
C5_RoundTripThreeQuarters ==
    [][(trail.cmd = "ZoomIn" /\ trail'.cmd = "ZoomOut") =>
          /\ Width(upper_left', lower_right')
               = RMul(Rat(3 * Span(trail.click[1]), bounds[1]),
                      Width(trail.upper_left, trail.lower_right))
          /\ Height(upper_left', lower_right')
               = RMul(Rat(3 * Span(trail.click[2]), bounds[2]),
                      Height(trail.upper_left, trail.lower_right))]_vars

\* Reached right after a ZoomOut that followed a ZoomIn: the view is 3 times
\* the ZoomIn rectangle, which came from a 4 x 4 view
C5_Witness ==
    /\ trail.cmd = "ZoomOut"
    /\ zoom_steps = 2
    /\ Width(trail.upper_left, trail.lower_right) = F(1)
    /\ Width(upper_left, lower_right) = F(3)

\* C6: after ZoomIn at (x, y), upper_left and lower_right are the points of
\* pixels (x - 100, y - 100) and (x + 100, y + 100) in the view held before,
\* and the rectangle is centered on the point of pixel (x, y).
C6_ZoomInCentered ==
    LET x == trail.click[1]
        y == trail.click[2]
        Map(px, py) == pixel_to_point(bounds, <<px, py>>, trail.upper_left, trail.lower_right)
    IN  trail.cmd = "ZoomIn" =>
            /\ upper_left = Map(x - HalfExtent, y - HalfExtent)
            /\ lower_right = Map(x + HalfExtent, y + HalfExtent)
            /\ CAdd(upper_left, lower_right) = CAdd(Map(x, y), Map(x, y))

\* C7: the view rectangle is non-degenerate and correctly oriented.
C7_ViewOriented ==
    /\ RLess(upper_left.re, lower_right.re)
    /\ RLess(lower_right.im, upper_left.im)

C7_Witness ==
    /\ trail.cmd = "ZoomIn"
    /\ trail.click[1] < HalfExtent
    /\ zoom_steps = 2

\* C8: the texture is created with the width and the height of the pixel
\* bounds, so its texel count times 4 is the buffer length 4 * width * height.
C8_TextureDims ==
    pc = "done" =>
        /\ texture.width = bounds[1]
        /\ texture.height = bounds[2]
        /\ 4 * texture.width * texture.height = Length(texture.rgba)
        /\ Length(texture.rgba) = 4 * bounds[1] * bounds[2]

\* C9: in a render pass every byte index in [0, 4 * width * height) belongs
\* to exactly one band, band i being bytes [4*width*i, 4*width*(i+1)); each
\* worker writes only indices of its own band; and when the pass ends every
\* byte has been written by its band's worker.
C9_BandsDisjointCover ==
    pc \in {"bands", "done"} =>
        /\ DOMAIN pixels = 0 .. 4 * bounds[1] * bounds[2] - 1
        /\ \A i \in DOMAIN bands :
               BandIndices(bounds, i) = 4 * bounds[1] * i .. 4 * bounds[1] * (i + 1) - 1
        /\ \A j \in DOMAIN pixels :
               /\ Cardinality({i \in DOMAIN bands : j \in BandIndices(bounds, i)}) = 1
               /\ \A n \in 1 .. Len(writes[j]) : j \in BandIndices(bounds, writes[j][n])
               /\ pc = "done" => writes[j] # <<>>

C9_Witness ==
    /\ pc = "done"
    /\ bounds = <<2, 2>>
    /\ \A j \in DOMAIN pixels : writes[j] = <<j \div 8>>

\* C10: the final buffer of a pass is the same under every interleaving of
\* the band workers, equals the buffer of the bands run sequentially in any
\* order, and equals the buffer of every other pass of the same arguments.
C10_PassDeterministic ==
    pc = "done" =>
        /\ \A order \in BandOrders(bounds) :
               pixels = SequentialRender(order, U32Val(time_limit), bounds,
                                         upper_left, lower_right)
        /\ \A n \in 1 .. Len(passes) : passes[n] = pixels

C10_Witness ==
    /\ pc = "done"
    /\ Len(passes) = 2
    /\ bounds = <<2, 2>>
    /\ \E i, j \in DOMAIN pixels : i % 4 = j % 4 /\ i \div 8 # j \div 8 /\ pixels[i] # pixels[j]

\* C11: the step that reads the pixel buffer to build the texture happens only
\* when every band worker has finished: every byte of the buffer has been
\* written by then, every band has rendered all its columns, and the texture
\* holds the buffer as the finished bands left it.
C11_ReadAfterJoin ==
    [][Len(passes') > Len(passes) =>
          /\ \A j \in DOMAIN pixels : writes[j] # <<>>
          /\ \A i \in DOMAIN bands : bands[i].column = args.bounds[1]
          /\ texture'.rgba = pixels
          /\ pixels' = pixels]_vars

\* A pass over an image of two bands has completed
C11_Witness ==
    /\ pc = "done"
    /\ DOMAIN bands = {0, 1}
    /\ texture.rgba = pixels
    /\ \A j \in DOMAIN pixels : writes[j] # <<>>

\* C12: at every draw, and whenever update_event is false, the texture is the
\* image that draw_image makes of the current bounds, view corners and
\* iteration budget: no command leaves a stale texture to be drawn.
C12_TextureCurrent ==
    (pc = "draw" \/ ~update_event) =>
        texture = draw_image(time_limit, bounds, upper_left, lower_right)

\* A draw is about to show the texture of a zoomed view under a changed budget
C12_Witness ==
    /\ pc = "draw"
    /\ trail.cmd = "ZoomIn"
    /\ time_limit # InitTimeLimit
    /\ texture = draw_image(time_limit, bounds, upper_left, lower_right)

\* C13: a render pass is executed only in response to a viewport command
\* (reset, zoom-in, zoom-out, increase-budget, decrease-budget): an update call
\* that runs a render pass was preceded, since the previous render pass, by one
\* of these commands, whatever input events were delivered.
C13_RenderOnlyOnCommand == log.rendered => log.caused

\* C14: the view rectangle and the iteration budget that a render pass uses are
\* the values held when the pass started, and nothing changes them while it
\* runs: from the start of the pass to its completion the State's bounds, view
\* corners and budget equal the snapshot passed to draw_image, no step taken
\* during the pass changes them, and the texture at completion is the image of
\* the buffer rendered from that snapshot.
C14_SnapshotStable ==
    /\ [](pc \in {"bands", "done"} =>
            args = [time_limit |-> time_limit, bounds |-> bounds,
                    upper_left |-> upper_left, lower_right |-> lower_right])
    /\ [][pc = "bands" =>
            /\ UNCHANGED <<bounds, upper_left, lower_right, time_limit, args>>
            /\ UNCHANGED <<mouse_pressed, update_event>>]_vars

\* A render pass that a zoom or budget command caused is under way, the second
\* band done and the first not started
C14_Witness ==
    /\ pc = "bands"
    /\ log.caused
    /\ ~log.reset
    /\ DOMAIN bands = {0, 1}
    /\ bands[0].column = 0
    /\ bands[1].column = args.bounds[1]
    /\ args.time_limit = time_limit

\* C15: corner exactness of pixel_to_point.  For every image size and view, the
\* point of pixel (0, 0), which is the upper-left corner of the first band,
\* equals the view's upper_left, and the point of pixel (width, height), which
\* is the lower-right corner of the last band, equals the view's lower_right.
C15_CornerExact ==
    pc = "mapped" =>
        /\ bands[0].args.upper_left = upper_left
        /\ bands[bounds[2] - 1].args.lower_right = lower_right

\* The point of pixel (c, 0) of band i, which render evaluates
BandPoint(i, c) ==
    pixel_to_point(bands[i].args.band_bounds, <<c, 0>>,
                   bands[i].args.upper_left, bands[i].args.lower_right)

\* C18: band rendering refines whole-image rendering.  When every band is
\* rendered, the four bytes at indices 4*(i*width + c) .. 4*(i*width + c) + 3
\* are the colour of the point that pixel_to_point gives pixel (c, i) of the
\* whole image under the view, and the alpha byte is 255.
C18_BandRefinesWhole ==
    (pc = "mapped" /\ \A i \in DOMAIN bands : bands[i].column = bounds[1]) =>
        \A i \in 0 .. bounds[2] - 1, c \in 0 .. bounds[1] - 1 :
            LET whole == PixelBytesFl(U32Val(time_limit),
                             pixel_to_point_fl(bounds, <<c, i>>, upper_left, lower_right))
            IN  /\ \A k \in 0 .. 3 : pixels[4 * (i * bounds[1] + c) + k] = whole[k + 1]
                /\ pixels[4 * (i * bounds[1] + c) + 3] = 255

\* The pixels (band, column) of a completed pass
PassPixels == {<<i, c>> : i \in DOMAIN bands, c \in 0 .. bounds[1] - 1}

\* C16: escape-time monotonicity in the limit.  For each point that a pass
\* evaluated and all limits 1 <= L <= L2: if escape_time with limit L returns
\* escaped at step i, then 0 <= i < L and escape_time with limit L2 returns
\* escaped at the same step i, never bounded.
C16_EscapeMonotonic ==
    pc = "done" =>
        \A px \in PassPixels :
            \A L \in 1 .. MaxLimit, L2 \in 1 .. MaxLimit :
                LET e == escape_time(BandPoint(px[1], px[2]), L)
                IN  (L <= L2 /\ e # <<>>) =>
                        /\ 0 <= e[1] /\ e[1] < L
                        /\ escape_time(BandPoint(px[1], px[2]), L2) = e

\* A pass with a budget below MaxLimit has evaluated a point that escapes
\* under its budget and a point that its budget leaves bounded and MaxLimit
\* does not
C16_Witness ==
    /\ pc = "done"
    /\ U32Val(time_limit) < MaxLimit
    /\ \E px \in PassPixels :
           escape_time(BandPoint(px[1], px[2]), U32Val(time_limit)) # <<>>
    /\ \E px \in PassPixels :
           /\ escape_time(BandPoint(px[1], px[2]), U32Val(time_limit)) = <<>>
           /\ escape_time(BandPoint(px[1], px[2]), MaxLimit) # <<>>

\* The four bytes of pixel (c, i) in the buffer
BufferBytes(i, c) == [k \in 1 .. 4 |-> pixels[4 * (i * bounds[1] + c) + k - 1]]

\* C17: for every budget L >= 1 and every pixel of a completed pass, the pixel
\* has the inside colour (0, 0, 0, 255) if and only if escape_time returned
\* bounded for its point; an escaped point, at any step in 0 .. L-1, has HSV
\* value 1 (its largest colour byte is 255) and alpha 255.  And for bounds
\* (100, 100), view ((-1, 1), (1, -1)) and budget 50, pixel (50, 50) maps to
\* 0+0i, which is bounded and gets the inside colour.
C17_InsideIffBounded ==
    pc = "done" =>
        /\ U32Val(time_limit) >= 1
        /\ \A px \in PassPixels :
               LET e == escape_time(BandPoint(px[1], px[2]), U32Val(time_limit))
                   b == BufferBytes(px[1], px[2])
               IN  /\ (b = <<0, 0, 0, 255>>) <=> (e = <<>>)
                   /\ e # <<>> =>
                          /\ e[1] \in 0 .. U32Val(time_limit) - 1
                          /\ \E k \in 1 .. 3 : b[k] = 255
                          /\ b[4] = 255
        /\ LET point == pixel_to_point(<<100, 100>>, <<50, 50>>,
                                       Complex(F(-1), F(1)), Complex(F(1), F(-1)))
           IN  /\ point = Complex(F(0), F(0))
               /\ escape_time(point, 50) = <<>>
               /\ PixelBytes(50, point) = <<0, 0, 0, 255>>

\* A completed pass holds a pixel with the inside colour and a pixel whose
\* point escaped at the last step its budget allows
C17_Witness ==
    /\ pc = "done"
    /\ \E px \in PassPixels : BufferBytes(px[1], px[2]) = <<0, 0, 0, 255>>
    /\ \E px \in PassPixels :
           /\ escape_time(BandPoint(px[1], px[2]), U32Val(time_limit))
                  = <<U32Val(time_limit) - 1>>
           /\ BufferBytes(px[1], px[2]) # <<0, 0, 0, 255>>

\* C19: after an update in which the reset key (Space) is down, from any
\* reachable state, the view is the initial view upper_left = (-3, 2),
\* lower_right = (1, -2), that update has re-rendered the texture for it under
\* the current budget, and update_event is false.
C19_ResetRestoresView ==
    (pc = "draw" /\ log.reset) =>
        /\ upper_left = InitUpperLeft
        /\ lower_right = InitLowerRight
        /\ log.rendered
        /\ texture = draw_image(time_limit, bounds, InitUpperLeft, InitLowerRight)
        /\ ~update_event

\* An update has reset a view that was not the initial one, under a budget
\* that is not the initial one
C19_Witness ==
    /\ pc = "draw"
    /\ log.reset
    /\ trail.cmd = "Reset"
    /\ trail.upper_left # InitUpperLeft
    /\ time_limit # InitTimeLimit
    /\ upper_left = InitUpperLeft

\* C20: frame conditions.  bounds equals its initial value in every reachable
\* state and no step changes it; a step that changes time_limit (IncreaseBudget,
\* DecreaseBudget) leaves upper_left and lower_right unchanged, as does every
\* handler step that is not a zoom; and update, with or without Reset, and the
\* steps that record a Reset, ZoomIn or ZoomOut leave time_limit unchanged
\* (Reset does not restore the initial budget).
C20_FrameConditions ==
    /\ [](bounds = win_size)
    /\ [][/\ bounds' = bounds
          /\ time_limit' # time_limit =>
                 upper_left' = upper_left /\ lower_right' = lower_right
          /\ (pc = "events" /\ pc' = "events" /\ trail' = trail) =>
                 upper_left' = upper_left /\ lower_right' = lower_right
          /\ pc' = "draw" => time_limit' = time_limit
          /\ trail' # trail => time_limit' = time_limit]_vars

\* An update has reset the view while the budget was twice the initial one,
\* and the budget is still that
C20_Witness ==
    /\ pc = "draw"
    /\ log.reset
    /\ time_limit = IncreasedBudget(InitTimeLimit)
    /\ upper_left = ResetUpperLeft
    /\ lower_right = ResetLowerRight
    /\ bounds = win_size

====
